---------------------------- MODULE Spec2Model ----------------------------
(***************************************************************************)
(* notion-page-retriever (src/main.go): one run of main.                   *)
(*                                                                         *)
(* Strings are sequences of one-character strings, so that indentation,    *)
(* hyphenation and concatenation are computed character by character.      *)
(* Block ids and the page id are such strings too.                         *)
(***************************************************************************)
EXTENDS Integers, Sequences, FiniteSets, TLC

(***************************************************************************)
(* Bounds of the model and constants of the program                        *)
(***************************************************************************)
\* largest page length the modelled server uses for the small documents
MaxServerPage == 2
\* number of children of the root in the wide document
WideCount == 250
\* PageSize requested by fetchChildBlocks (main.go:206)
PageSize == 100
\* length of an unhyphenated page id (main.go:31)
RawIDLen == 32
\* page length the server uses for the wide document (the request's ceiling)
WidePage == 100

Min(a, b) == IF a < b THEN a ELSE b

NL == "\n"
SP == " "
HY == "-"

RECURSIVE Repeat(_, _)
\* strings.Repeat(s, n)
Repeat(s, n) == IF n <= 0 THEN <<>> ELSE s \o Repeat(s, n - 1)

RECURSIVE Join(_, _)
\* strings.Join(parts, sep)
Join(parts, sep) ==
    IF Len(parts) = 0 THEN <<>>
    ELSE IF Len(parts) = 1 THEN parts[1]
    ELSE parts[1] \o sep \o Join(Tail(parts), sep)

RECURSIVE Split(_, _)
\* strings.Split(s, sep) for a one-character separator: always at least one part
Split(s, c) ==
    IF \A i \in 1..Len(s) : s[i] # c THEN <<s>>
    ELSE LET k == CHOOSE i \in 1..Len(s) : s[i] = c /\ \A j \in 1..(i - 1) : s[j] # c
         IN  <<SubSeq(s, 1, k - 1)>> \o Split(SubSeq(s, k + 1, Len(s)), c)

\* strings.Contains(id, "-")
Contains(s, c) == \E i \in 1..Len(s) : s[i] = c

(***************************************************************************)
(* getIndent, formatPageID, getRichTextContent                             *)
(***************************************************************************)
\* main.go:19 (never called by main.go)
getIndent(depth) == Repeat(<<SP, SP>>, depth)

\* a formatPageID that hyphenates 8-4-4-12 (one group lost)
formatPageID_m(id) ==
    IF Contains(id, HY) THEN id
    ELSE IF Len(id) = RawIDLen
         THEN SubSeq(id, 1, 8) \o <<HY>> \o SubSeq(id, 9, 12) \o <<HY>> \o
              SubSeq(id, 13, 16) \o <<HY>> \o SubSeq(id, 17, 32)
         ELSE id

formatPageID(id) ==
    IF Contains(id, HY) THEN id
    ELSE IF Len(id) = RawIDLen
         THEN SubSeq(id, 1, 8) \o <<HY>> \o SubSeq(id, 9, 12) \o <<HY>> \o
              SubSeq(id, 13, 16) \o <<HY>> \o SubSeq(id, 17, 20) \o <<HY>> \o
              SubSeq(id, 21, 32)
         ELSE id

\* richText is a sequence of runs; each run is its PlainText
getRichTextContent(richText) == Join(richText, <<>>)

(***************************************************************************)
(* Block payloads (notionapi.Block variants)                               *)
(***************************************************************************)
NoIcon == [type |-> "nil", emoji |-> <<>>]

Mk(kind, rt) ==
    [kind |-> kind, rt |-> rt, checked |-> FALSE, itype |-> "", url |-> <<>>,
     lang |-> <<>>, icon |-> NoIcon, cells |-> <<>>]

TxIntro == <<<<"I", "n">>, <<"t", "r", "o">>>>
TxItem == <<<<"i", "t">>>>
TxSub == <<<<"S", "u", "b">>>>
TxLead == <<<<SP, "p">>>>
TxTwo == <<<<"a", NL, "b">>>>
TxUrl == <<"u">>

Payloads ==
    << Mk("paragraph", TxItem),
       Mk("paragraph", TxLead),
       Mk("paragraph", <<>>),
       Mk("heading_1", TxIntro),
       Mk("heading_2", TxItem),
       Mk("heading_3", TxItem),
       Mk("bulleted_list_item", TxItem),
       Mk("numbered_list_item", TxItem),
       [Mk("to_do", TxItem) EXCEPT !.checked = TRUE],
       Mk("to_do", TxItem),
       [Mk("image", <<>>) EXCEPT !.itype = "external", !.url = TxUrl],
       [Mk("image", <<>>) EXCEPT !.itype = "file", !.url = TxUrl],
       [Mk("image", <<>>) EXCEPT !.itype = "other"],
       [Mk("code", TxTwo) EXCEPT !.lang = <<"g", "o">>],
       Mk("quote", TxTwo),
       Mk("callout", TxItem),
       [Mk("callout", TxItem) EXCEPT !.icon = [type |-> "emoji", emoji |-> <<"E">>]],
       [Mk("callout", TxItem) EXCEPT !.icon = [type |-> "external", emoji |-> <<>>]],
       Mk("divider", <<>>),
       Mk("toggle", TxItem),
       Mk("table", <<>>),
       [Mk("table_row", <<>>) EXCEPT !.cells = <<TxItem, TxSub>>],
       Mk("column_list", <<>>),
       Mk("column", <<>>),
       Mk("unsupported", TxItem) >>

\* payloads given to the even-numbered blocks of a small document
Fillers == << Mk("bulleted_list_item", TxSub), Mk("table", <<>>) >>

(***************************************************************************)
(* printBlock: the text one call writes to standard output                 *)
(***************************************************************************)
\* the default callout icon (main.go:102) and the backtick, as single characters
BULB == "U+1F4A1"
BT == "U+0060"

PrintBody(b, indent) ==
    LET t == getRichTextContent(b.rt) IN
    CASE b.kind = "paragraph" -> indent \o t \o <<NL, NL>>
      [] b.kind = "heading_1" -> indent \o <<"#", SP>> \o t \o <<NL, NL>>
      [] b.kind = "heading_2" -> indent \o <<"#", "#", SP>> \o t \o <<NL, NL>>
      [] b.kind = "heading_3" -> indent \o <<"#", "#", "#", SP>> \o t \o <<NL, NL>>
      [] b.kind = "bulleted_list_item" -> indent \o <<"-", SP>> \o t \o <<NL>>
      [] b.kind = "numbered_list_item" -> indent \o <<"1", ".", SP>> \o t \o <<NL>>
      [] b.kind = "to_do" ->
            indent \o <<"-", SP>> \o
            (IF b.checked THEN <<"[", "x", "]">> ELSE <<"[", SP, "]">>) \o
            <<SP>> \o t \o <<NL>>
      [] b.kind = "image" ->
            IF b.itype \in {"external", "file"}
            THEN indent \o <<"!", "[", "I", "m", "a", "g", "e", "]", "(">> \o b.url \o
                 <<")", NL, NL>>
            ELSE <<>>
      [] b.kind = "code" ->
            indent \o <<BT, BT, BT>> \o b.lang \o <<NL>> \o
            indent \o t \o <<NL>> \o
            indent \o <<BT, BT, BT, NL, NL>>
      [] b.kind = "quote" ->
            LET lines == Split(t, NL)
                Out[i \in 0..Len(lines)] ==
                    IF i = 0 THEN <<>>
                    ELSE Out[i - 1] \o indent \o <<">", SP>> \o lines[i] \o <<NL>>
            IN  Out[Len(lines)] \o <<NL>>
      [] b.kind = "callout" ->
            indent \o <<">", SP>> \o
            (IF b.icon.type = "emoji" THEN b.icon.emoji ELSE <<BULB>>) \o
            <<SP>> \o t \o <<NL, NL>>
      [] b.kind = "divider" -> indent \o <<"-", "-", "-", NL, NL>>
      [] b.kind = "toggle" -> indent \o <<"-", SP>> \o t \o <<NL>>
      [] b.kind = "table" -> <<>>
      [] b.kind = "table_row" ->
            indent \o <<"|", SP>> \o
            Join([i \in 1..Len(b.cells) |-> getRichTextContent(b.cells[i])],
                 <<SP, "|", SP>>) \o
            <<SP, "|", NL>>
      [] b.kind \in {"column_list", "column"} -> <<>>
      [] OTHER -> <<>>

\* a printBlock that indents with getIndent (two spaces a level)
printBlock_m(b, depth) == PrintBody(b, getIndent(depth))

printBlock(b, depth) == PrintBody(b, Repeat(<<SP, SP, SP, SP>>, depth))

\* kinds with a case in collectContent's switch
TextKinds ==
    {"paragraph", "heading_1", "heading_2", "heading_3", "bulleted_list_item",
     "numbered_list_item", "to_do", "quote", "callout", "toggle"}

\* what one iteration of collectContent's loop writes to the builder
CollectText(b) ==
    (IF b.kind \in TextKinds THEN getRichTextContent(b.rt) ELSE <<>>) \o <<NL, NL>>

(***************************************************************************)
(* The document held by the remote API                                     *)
(***************************************************************************)
Hex == <<"0", "1", "2", "3", "4", "5", "6", "7", "8", "9", "a", "b", "c", "d", "e", "f">>
Dig == <<"0", "1", "2", "3", "4", "5", "6", "7", "8", "9">>

\* an unhyphenated page id whose characters differ from their neighbours
RawID == [i \in 1..RawIDLen |-> Hex[((i * 7) % 16) + 1]]
\* the id under which the server holds the page: RawID as a hyphenated UUID
RootID ==
    SubSeq(RawID, 1, 8) \o <<HY>> \o SubSeq(RawID, 9, 12) \o <<HY>> \o
    SubSeq(RawID, 13, 16) \o <<HY>> \o SubSeq(RawID, 17, 20) \o <<HY>> \o
    SubSeq(RawID, 21, 32)

B1 == <<"b", "1">>
B2 == <<"b", "2">>
B3 == <<"b", "3">>
W(i) == <<"w", Dig[((i \div 100) % 10) + 1], Dig[((i \div 10) % 10) + 1], Dig[(i % 10) + 1]>>

SmallShapes == {"pair", "chain", "row", "fan"}
FlagModes == {"honest", "eager", "deny"}

SmallDocs ==
    [shape : SmallShapes, a : 1..Len(Payloads), b : 1..Len(Fillers),
     flags : FlagModes, limit : 1..MaxServerPage]
\* heading "Intro", bulleted item with one nested bulleted child "Sub"
IntroDoc == [shape |-> "intro", a |-> 4, b |-> 1, flags |-> "honest", limit |-> PageSize]
EmptyDoc == [shape |-> "empty", a |-> 1, b |-> 1, flags |-> "honest", limit |-> PageSize]
WideDoc == [shape |-> "wide", a |-> 1, b |-> 1, flags |-> "honest", limit |-> WidePage]
Docs == SmallDocs \cup {IntroDoc, EmptyDoc, WideDoc}

\* the ordered children the server holds for a block (or the page)
Kids(d, id) ==
    CASE d.shape \in {"pair", "intro"} ->
            (IF id = RootID THEN <<B1, B2>> ELSE IF id = B2 THEN <<B3>> ELSE <<>>)
      [] d.shape = "chain" ->
            (IF id = RootID THEN <<B1>> ELSE IF id = B1 THEN <<B2>>
             ELSE IF id = B2 THEN <<B3>> ELSE <<>>)
      [] d.shape = "row" -> (IF id = RootID THEN <<B2, B1, B3>> ELSE <<>>)
      [] d.shape = "fan" ->
            (IF id = RootID THEN <<B1>> ELSE IF id = B1 THEN <<B3, B2>> ELSE <<>>)
      [] d.shape = "wide" ->
            (IF id = RootID THEN [i \in 1..WideCount |-> W(i)] ELSE <<>>)
      [] OTHER -> <<>>

Nodes(d) ==
    CASE d.shape = "wide" -> {W(i) : i \in 1..WideCount}
      [] d.shape = "empty" -> {}
      [] OTHER -> {B1, B2, B3}

Range(s) == {s[i] : i \in 1..Len(s)}

\* the block (or the page) whose child a block is
ParentOf(d, n) ==
    IF d.shape = "wide" THEN RootID
    ELSE CHOOSE p \in Nodes(d) \cup {RootID} : n \in Range(Kids(d, p))

RECURSIVE DepthOf(_, _)
\* the page's children are at depth 0
DepthOf(d, n) == IF ParentOf(d, n) = RootID THEN 0 ELSE 1 + DepthOf(d, ParentOf(d, n))

\* the payload of a block
Blk(d, n) ==
    CASE d.shape = "intro" ->
            (IF n = B1 THEN Mk("heading_1", TxIntro)
             ELSE IF n = B2 THEN Mk("bulleted_list_item", TxItem)
             ELSE Mk("bulleted_list_item", TxSub))
      [] d.shape = "wide" -> Mk("numbered_list_item", TxItem)
      [] OTHER -> IF n = B2 THEN Fillers[d.b] ELSE Payloads[d.a]

\* the has_children flag the server reports for a block
Has(d, n) ==
    CASE d.flags = "eager" -> TRUE
      [] d.flags = "deny" -> n # B2 /\ Kids(d, n) # <<>>
      [] OTHER -> Kids(d, n) # <<>>

IndexOf(s, x) == CHOOSE i \in 1..Len(s) : s[i] = x

\* the server's answer to one list-children request that it can serve
Respond(d, req) ==
    LET all == Kids(d, req.id)
        n == Min(req.pageSize, d.limit)
        from == IF req.cursor = <<>> THEN 1 ELSE IndexOf(all, req.cursor)
        to == Min(from + n - 1, Len(all))
    IN  [results |-> SubSeq(all, from, to),
         hasMore |-> to < Len(all),
         nextCursor |-> IF to < Len(all) THEN all[to + 1] ELSE <<>>]

\* the server can serve the request: it holds the block and knows the cursor
Servable(d, req) ==
    /\ req.id \in Nodes(d) \cup {RootID}
    /\ req.cursor = <<>> \/ req.cursor \in Range(Kids(d, req.id))

(***************************************************************************)
(* State of one run                                                        *)
(***************************************************************************)
VARIABLES
    doc,            \* the document the server holds (never changes in a run)
    args,           \* os.Args
    env,            \* the environment variables that are set
    pc,             \* where main is: start, print, collect, summarize, exit
    pageID,         \* main's pageID
    stack,          \* the active calls below main, innermost last
    blockChildren,  \* the package-level map (main.go:16)
    out,            \* standard output: one entry per call that wrote something
    content,        \* main's contentBuilder
    calls,          \* every Block.GetChildren call made, with its answer
    sumCalls,       \* number of chat-completion calls made
    errlog,         \* what log.Fatal, log.Fatalf and log.Printf wrote
    exitCode        \* the process's exit status, -1 while it runs

vars ==
    <<doc, args, env, pc, pageID, stack, blockChildren, out, content, calls,
      sumCalls, errlog, exitCode>>

Prog == <<"m", "a", "i", "n">>
\* ids that formatPageID leaves alone, none of them the page's id
OddIDs ==
    { SubSeq(RawID, 1, RawIDLen - 1),
      RawID \o <<"0">>,
      SubSeq(RawID, 1, 8) \o <<HY>> \o SubSeq(RawID, 9, RawIDLen - 1),
      <<>> }
GoodIDs == {RawID, RootID}
ArgLists ==
    {<<Prog>>, <<Prog, RawID, RawID>>} \cup {<<Prog, id>> : id \in GoodIDs \cup OddIDs}
EnvSets == SUBSET {"NOTION_API_TOKEN", "OPENAI_API_KEY"}

Frame(fn, id, depth, phase) ==
    [fn |-> fn, id |-> id, depth |-> depth, phase |-> phase, blocks |-> <<>>,
     cursor |-> <<>>, i |-> 1, base |-> 0]

Top == stack[Len(stack)]
Below == SubSeq(stack, 1, Len(stack) - 1)
SetTop(f) == [stack EXCEPT ![Len(stack)] = f]

Init ==
    /\ env \in EnvSets
    /\ args \in ArgLists
    /\ doc \in Docs
    /\ pc = "start"
    /\ pageID = <<>>
    /\ stack = <<>>
    /\ blockChildren = <<>>
    /\ out = <<>>
    /\ content = <<>>
    /\ calls = <<>>
    /\ sumCalls = 0
    /\ errlog = <<>>
    /\ exitCode = -1

(***************************************************************************)
(* main, up to the first call (main.go:160-175)                            *)
(***************************************************************************)
Usage ==
    <<"U", "s", "a", "g", "e", ":", SP, "g", "o", SP, "r", "u", "n", SP, "m", "a",
      "i", "n", ".", "g", "o", SP, "<", "p", "a", "g", "e", "-", "i", "d", ">", NL>>

ArgsOK(a) == Len(a) = 2

\* a main that goes on without the token
TokenOK_m(e) == TRUE
TokenOK(e) == "NOTION_API_TOKEN" \in e

Exit(code) ==
    /\ pc' = "exit"
    /\ exitCode' = code
    /\ stack' = <<>>

MainUsage ==
    /\ pc = "start"
    /\ ~ArgsOK(args)
    /\ out' = Append(out, [src |-> "main", id |-> <<>>, text |-> Usage])
    /\ Exit(1)
    /\ UNCHANGED <<doc, args, env, pageID, blockChildren, content, calls, sumCalls, errlog>>

MainNoToken ==
    /\ pc = "start"
    /\ ArgsOK(args)
    /\ ~TokenOK(env)
    /\ errlog' = Append(errlog, "NOTION_API_TOKEN is not set")
    /\ Exit(1)
    /\ UNCHANGED <<doc, args, env, pageID, blockChildren, out, content, calls, sumCalls>>

\* the call printBlocksRecursive(client, pageID, 0, nil), which at once calls
\* fetchChildBlocks(ctx, pageID, client)
MainRun ==
    /\ pc = "start"
    /\ ArgsOK(args)
    /\ TokenOK(env)
    /\ pageID' = formatPageID(args[2])
    /\ pc' = "print"
    /\ stack' = << Frame("print", formatPageID(args[2]), 0, "fetching"),
                   [Frame("fetch", formatPageID(args[2]), 0, "page")
                        EXCEPT !.base = Len(calls)] >>
    /\ UNCHANGED <<doc, args, env, blockChildren, out, content, calls, sumCalls, errlog, exitCode>>

(***************************************************************************)
(* fetchChildBlocks (main.go:198-236)                                      *)
(***************************************************************************)
\* main.go:204-207
Request(id, cursor) == [id |-> id, cursor |-> cursor, pageSize |-> PageSize]

\* a fetch that keeps only the page it has just received
AppendPage_m(blocks, results) == results
\* main.go:212
AppendPage(blocks, results) == blocks \o results

InPageLoop == stack # <<>> /\ Top.fn = "fetch" /\ Top.phase = "page"

\* one Block.GetChildren call that succeeds, and the rest of the loop's body
GetChildrenOK ==
    /\ InPageLoop
    /\ LET req == Request(Top.id, Top.cursor) IN
       /\ Servable(doc, req)
       /\ LET resp == Respond(doc, req)
              got == AppendPage(Top.blocks, resp.results)
          IN  /\ calls' = Append(calls, [req |-> req, ok |-> TRUE, resp |-> resp])
              /\ stack' = SetTop(IF ~resp.hasMore
                                 THEN [Top EXCEPT !.blocks = got, !.phase = "kids", !.i = 1]
                                 ELSE [Top EXCEPT !.blocks = got, !.cursor = resp.nextCursor])
    /\ UNCHANGED <<doc, args, env, pc, pageID, blockChildren, out, content, sumCalls, errlog, exitCode>>

NoResp == [results |-> <<>>, hasMore |-> FALSE, nextCursor |-> <<>>]

\* one Block.GetChildren call that fails (it can fail at any time): the error goes
\* up through every caller to main, which ends the process with log.Fatalf
GetChildrenErr ==
    /\ InPageLoop
    /\ calls' = Append(calls, [req |-> Request(Top.id, Top.cursor), ok |-> FALSE,
                               resp |-> NoResp])
    /\ errlog' = Append(errlog, IF pc = "print" THEN "Error fetching blocks"
                                ELSE "Error collecting content")
    /\ Exit(1)
    /\ UNCHANGED <<doc, args, env, pageID, blockChildren, out, content, sumCalls>>

\* a fetch that expands every block, whatever its has_children flag
Expands_m(d, id) == TRUE
\* main.go:225
Expands(d, id) == Has(d, id)

\* the blocks at or after position i that the second loop expands
ToExpand(f) == {j \in f.i..Len(f.blocks) : Expands(doc, f.blocks[j])}

InKidsLoop == stack # <<>> /\ Top.fn = "fetch" /\ Top.phase = "kids"

\* the second loop reaches a block with children: the recursive call
FetchDescend ==
    /\ InKidsLoop
    /\ ToExpand(Top) # {}
    /\ LET j == CHOOSE k \in ToExpand(Top) : \A m \in ToExpand(Top) : k <= m IN
       stack' = Append(SetTop([Top EXCEPT !.i = j]),
                       [Frame("fetch", Top.blocks[j], 0, "page") EXCEPT !.base = Len(calls)])
    /\ UNCHANGED <<doc, args, env, pc, pageID, blockChildren, out, content, calls, sumCalls, errlog, exitCode>>

\* a fetch that stores the children under the parent's id
StoreKey_m(caller) == caller.id
\* main.go:231: the key is the id of the block whose children were fetched
StoreKey(caller) == caller.blocks[caller.i]

Store(map, key, childBlocks) ==
    [k \in DOMAIN map \cup {key} |-> IF k = key THEN childBlocks ELSE map[k]]

\* the second loop is over: return blocks, nil to the caller
FetchReturn ==
    /\ InKidsLoop
    /\ ToExpand(Top) = {}
    /\ LET caller == stack[Len(stack) - 1] IN
       IF caller.fn = "fetch"
       THEN /\ blockChildren' = Store(blockChildren, StoreKey(caller), Top.blocks)
            /\ stack' = [Below EXCEPT ![Len(Below)] = [caller EXCEPT !.i = caller.i + 1]]
       ELSE /\ blockChildren' = blockChildren
            /\ stack' = [Below EXCEPT ![Len(Below)] =
                            [caller EXCEPT !.blocks = Top.blocks, !.phase = "loop", !.i = 1]]
    /\ UNCHANGED <<doc, args, env, pc, pageID, out, content, calls, sumCalls, errlog, exitCode>>

(***************************************************************************)
(* printBlocksRecursive (main.go:239-255)                                  *)
(***************************************************************************)
\* main.go:247 and main.go:288: the block has an entry in the map
HasEntry(map, id) == id \in DOMAIN map

Emit(o, id, text) ==
    IF text = <<>> THEN o ELSE Append(o, [src |-> "block", id |-> id, text |-> text])

InLoop(fn) == stack # <<>> /\ Top.fn = fn /\ Top.phase = "loop"

\* a renderer that keeps the parent's depth for the children
ChildDepth_m(depth) == depth
\* main.go:248
ChildDepth(depth) == depth + 1

\* one iteration: printBlock, then the recursive call if the block has an entry
PrintStep ==
    /\ InLoop("print")
    /\ Top.i <= Len(Top.blocks)
    /\ LET id == Top.blocks[Top.i] IN
       /\ out' = Emit(out, id, printBlock(Blk(doc, id), Top.depth))
       /\ stack' = IF HasEntry(blockChildren, id)
                   THEN stack \o << Frame("print", id, ChildDepth(Top.depth), "fetching"),
                                    [Frame("fetch", id, 0, "page") EXCEPT !.base = Len(calls)] >>
                   ELSE SetTop([Top EXCEPT !.i = Top.i + 1])
    /\ UNCHANGED <<doc, args, env, pc, pageID, blockChildren, content, calls, sumCalls, errlog, exitCode>>

\* return nil: to the calling printBlocksRecursive, or to main, which goes on to
\* collectContent(client, pageID, &contentBuilder) and so to fetchChildBlocks
PrintReturn ==
    /\ InLoop("print")
    /\ Top.i > Len(Top.blocks)
    /\ IF Len(stack) > 1
       THEN /\ stack' = [Below EXCEPT ![Len(Below)] =
                            [Below[Len(Below)] EXCEPT !.i = Below[Len(Below)].i + 1]]
            /\ pc' = pc
       ELSE /\ stack' = << Frame("collect", pageID, 0, "fetching"),
                           [Frame("fetch", pageID, 0, "page") EXCEPT !.base = Len(calls)] >>
            /\ pc' = "collect"
    /\ UNCHANGED <<doc, args, env, pageID, blockChildren, out, content, calls, sumCalls, errlog, exitCode>>

(***************************************************************************)
(* collectContent (main.go:258-296)                                        *)
(***************************************************************************)
CollectStep ==
    /\ InLoop("collect")
    /\ Top.i <= Len(Top.blocks)
    /\ LET id == Top.blocks[Top.i] IN
       /\ content' = content \o CollectText(Blk(doc, id))
       /\ stack' = IF HasEntry(blockChildren, id)
                   THEN stack \o << Frame("collect", id, 0, "fetching"),
                                    [Frame("fetch", id, 0, "page") EXCEPT !.base = Len(calls)] >>
                   ELSE SetTop([Top EXCEPT !.i = Top.i + 1])
    /\ UNCHANGED <<doc, args, env, pc, pageID, blockChildren, out, calls, sumCalls, errlog, exitCode>>

\* "\n=== AI による要約 ===\n" and Println's newline (main.go:188)
Separator ==
    <<NL, "=", "=", "=", SP, "A", "I", SP, "U+306B", "U+3088", "U+308B", "U+8981",
      "U+7D04", SP, "=", "=", "=", NL, NL>>

\* return nil: to the calling collectContent, or to main, which prints the separator
CollectReturn ==
    /\ InLoop("collect")
    /\ Top.i > Len(Top.blocks)
    /\ IF Len(stack) > 1
       THEN /\ stack' = [Below EXCEPT ![Len(Below)] =
                            [Below[Len(Below)] EXCEPT !.i = Below[Len(Below)].i + 1]]
            /\ pc' = pc
            /\ out' = out
       ELSE /\ stack' = <<>>
            /\ pc' = "summarize"
            /\ out' = Append(out, [src |-> "main", id |-> <<>>, text |-> Separator])
    /\ UNCHANGED <<doc, args, env, pageID, blockChildren, content, calls, sumCalls, errlog, exitCode>>

(***************************************************************************)
(* summarizeContent and the end of main (main.go:133-158, 189-195)         *)
(***************************************************************************)
\* a main that ends the run with log.Fatalf when the summary fails
MainEnd_m(failed) == IF failed THEN 1 ELSE 0
\* main.go:190-195: log.Printf or fmt.Println, then main returns
MainEnd(failed) == 0

Summary == <<"-", SP, "s", NL>>

\* OPENAI_API_KEY is not set: the error comes back before any request
SummarizeNoKey ==
    /\ pc = "summarize"
    /\ "OPENAI_API_KEY" \notin env
    /\ errlog' = Append(errlog, "Error generating summary: OPENAI_API_KEY is not set")
    /\ Exit(MainEnd(TRUE))
    /\ UNCHANGED <<doc, args, env, pageID, blockChildren, out, content, calls, sumCalls>>

\* the chat-completion call fails
SummarizeErr ==
    /\ pc = "summarize"
    /\ "OPENAI_API_KEY" \in env
    /\ sumCalls' = sumCalls + 1
    /\ errlog' = Append(errlog, "Error generating summary: summarization failed")
    /\ Exit(MainEnd(TRUE))
    /\ UNCHANGED <<doc, args, env, pageID, blockChildren, out, content, calls>>

\* the chat-completion call answers: fmt.Println(summary)
SummarizeOK ==
    /\ pc = "summarize"
    /\ "OPENAI_API_KEY" \in env
    /\ sumCalls' = sumCalls + 1
    /\ out' = Append(out, [src |-> "main", id |-> <<>>, text |-> Summary \o <<NL>>])
    /\ Exit(MainEnd(FALSE))
    /\ UNCHANGED <<doc, args, env, pageID, blockChildren, content, calls, errlog>>

Next ==
    \/ MainUsage \/ MainNoToken \/ MainRun
    \/ GetChildrenOK \/ GetChildrenErr \/ FetchDescend \/ FetchReturn
    \/ PrintStep \/ PrintReturn
    \/ CollectStep \/ CollectReturn
    \/ SummarizeNoKey \/ SummarizeErr \/ SummarizeOK

Spec == Init /\ [][Next]_vars

(***************************************************************************)
(* Definitions the properties are stated with                              *)
(***************************************************************************)
IsFragment(e) == e.src = "block"
\* the structural rendering written so far
Fragments == SelectSeq(out, IsFragment)
FetchFailed == \E k \in 1..Len(calls) : ~calls[k].ok
AllFetched == calls # <<>> /\ \A k \in 1..Len(calls) : calls[k].ok
\* the blocks the server has returned in this run
Fetched == UNION {Range(calls[k].resp.results) : k \in 1..Len(calls)}

\* number of leading space characters
Lead(t) ==
    IF \A i \in 1..Len(t) : t[i] = SP THEN Len(t)
    ELSE (CHOOSE i \in 1..Len(t) : t[i] # SP /\ \A j \in 1..(i - 1) : t[j] = SP) - 1

\* the pages a server with page length n serves for a child list
PageLen(d) == Min(PageSize, d.limit)
NumPages(d, id) ==
    IF Kids(d, id) = <<>> THEN 1
    ELSE (Len(Kids(d, id)) + PageLen(d) - 1) \div PageLen(d)
PageOf(d, id, k) ==
    SubSeq(Kids(d, id), (k - 1) * PageLen(d) + 1, Min(k * PageLen(d), Len(Kids(d, id))))

RECURSIVE ConcatPages(_, _, _)
ConcatPages(d, id, k) ==
    IF k = 0 THEN <<>> ELSE ConcatPages(d, id, k - 1) \o PageOf(d, id, k)

\* the list-children calls for f.id made since the call f began
OwnCalls(f) == {k \in (f.base + 1)..Len(calls) : calls[k].req.id = f.id}

PagedRight(f) ==
    LET P == NumPages(doc, f.id) IN
    /\ f.blocks = ConcatPages(doc, f.id, P)
    /\ Cardinality(Range(f.blocks)) = Len(f.blocks)
    /\ Range(f.blocks) = Range(Kids(doc, f.id))
    /\ OwnCalls(f) = (f.base + 1)..(f.base + P)
    /\ calls[f.base + 1].req.cursor = <<>>
    /\ \A j \in 1..P :
          /\ calls[f.base + j].req.pageSize = PageSize
          /\ calls[f.base + j].resp.results = PageOf(doc, f.id, j)
          /\ calls[f.base + j].resp.hasMore = (j < P)
          /\ j < P => calls[f.base + j + 1].req.cursor = calls[f.base + j].resp.nextCursor

\* C1: if any list-children call fails, at any depth and at any point of the run,
\* the run ends with a fetch error and no structural rendering fragment has been
\* written to the output.
C1_AllOrNothing ==
    (pc = "exit" /\ FetchFailed) => (exitCode = 1 /\ Fragments = <<>>)

\* C2: one fetchChildBlocks(parent) whose children the server serves over P pages
\* returns the concatenation of the P pages in response order, no block duplicated
\* and none missing, after exactly P list-children calls for that parent: the first
\* with an empty cursor, each later one with the next cursor of the previous
\* response, the last one the first response with has-more false.
C2_Pagination ==
    \A n \in 1..Len(stack) :
        /\ (stack[n].fn = "fetch" /\ stack[n].phase = "kids") => PagedRight(stack[n])
        /\ (stack[n].fn # "fetch" /\ stack[n].phase = "loop") =>
              stack[n].blocks = ConcatPages(doc, stack[n].id, NumPages(doc, stack[n].id))

\* a fetch of at least three pages has ended its page loop
C2_Witness ==
    \E n \in 1..Len(stack) :
        /\ stack[n].fn = "fetch" /\ stack[n].phase = "kids"
        /\ NumPages(doc, stack[n].id) >= 3
        /\ Len(stack[n].blocks) >= 3

\* C3: after a run in which every list-children call succeeded, the keys of
\* blockChildren are exactly the fetched blocks whose has_children flag was true,
\* and the value under a key is that block's ordered child list.
C3_TreeKeys ==
    (pc \in {"collect", "summarize", "exit"} /\ AllFetched) =>
        /\ DOMAIN blockChildren = {n \in Fetched : Has(doc, n)}
        /\ \A n \in DOMAIN blockChildren : blockChildren[n] = Kids(doc, n)

\* a successful run has ended with a key in the map, a fetched block without
\* has_children and a stored child list of more than one block
C3_Witness ==
    /\ pc = "exit" /\ exitCode = 0 /\ AllFetched
    /\ \E n \in Fetched : ~Has(doc, n)
    /\ \E n \in DOMAIN blockChildren : Len(blockChildren[n]) > 1

\* C4: once the first structural rendering fragment has been written, no further
\* list-children call is made and no entry of blockChildren is written.
C4_BuiltOnce ==
    [][Fragments # <<>> => (calls' = calls /\ blockChildren' = blockChildren)]_vars

\* kinds the text extraction is said to skip
NoTextKinds ==
    {"image", "code", "divider", "table", "table_row", "column_list", "column",
     "unsupported"}

RECURSIVE FlatFrom(_, _, _)
\* depth-first pre-order over the children of id from position i on: a text-bearing
\* block adds its text and a blank line, any other block adds nothing
FlatFrom(d, id, i) ==
    IF i > Len(Kids(d, id)) THEN <<>>
    ELSE LET n == Kids(d, id)[i] IN
         (IF Blk(d, n).kind \in NoTextKinds THEN <<>>
          ELSE getRichTextContent(Blk(d, n).rt) \o <<NL, NL>>) \o
         (IF Has(d, n) THEN FlatFrom(d, n, 1) ELSE <<>>) \o
         FlatFrom(d, id, i + 1)

\* C5: the flattened text is the depth-first pre-order concatenation of (text,
\* blank line) over the text-bearing blocks only; a block of any other kind adds no
\* characters at all, and its children are still visited.
C5_TextOnly ==
    pc = "summarize" => content = FlatFrom(doc, RootID, 1)

RECURSIVE RenderFrom(_, _, _, _)
\* the complete structural rendering of the children of id from position i on
RenderFrom(d, id, i, depth) ==
    IF i > Len(Kids(d, id)) THEN <<>>
    ELSE LET n == Kids(d, id)[i] IN
         Emit(<<>>, n, printBlock(Blk(d, n), depth)) \o
         (IF Has(d, n) THEN RenderFrom(d, n, 1, depth + 1) ELSE <<>>) \o
         RenderFrom(d, id, i + 1, depth)

SummaryFailed ==
    /\ pc = "exit"
    /\ errlog # <<>>
    /\ errlog[Len(errlog)] \in {"Error generating summary: OPENAI_API_KEY is not set",
                                "Error generating summary: summarization failed"}

\* C6: when the summary fails (no summarizer credential, or a failed summarizer
\* call) after a successful traversal, the output is still the complete structural
\* rendering followed by the labeled separator, the error is reported, and the
\* run ends with exit status 0.
C6_SummaryNonFatal ==
    SummaryFailed =>
        /\ exitCode = 0
        /\ Len(errlog) = 1
        /\ out = Append(RenderFrom(doc, RootID, 1, 0),
                        [src |-> "main", id |-> <<>>, text |-> Separator])

\* the summarizer call has failed after a rendering that wrote something
C6_Witness ==
    /\ SummaryFailed
    /\ sumCalls = 1
    /\ Len(Fragments) >= 2

\* C7: if the argument count is wrong, or NOTION_API_TOKEN or OPENAI_API_KEY is
\* absent, no list-children call and no summarizer call is ever made.
C7_ConfigFatal ==
    (~ArgsOK(args) \/ "NOTION_API_TOKEN" \notin env \/ "OPENAI_API_KEY" \notin env) =>
        (calls = <<>> /\ sumCalls = 0)

\* C7 as amended: if the argument count is wrong or NOTION_API_TOKEN is absent, no
\* list-children call and no summarizer call is ever made and the process ends with
\* exit status 1; an absent OPENAI_API_KEY only keeps the summarizer call from
\* being made.
C7_StartupFatal ==
    /\ (Len(args) # 2 \/ "NOTION_API_TOKEN" \notin env) =>
          /\ calls = <<>> /\ sumCalls = 0
          /\ pc \in {"start", "exit"}
          /\ pc = "exit" => exitCode = 1
    /\ "OPENAI_API_KEY" \notin env => sumCalls = 0

\* the process has ended for want of the token, the argument count being right
C7_Witness ==
    pc = "exit" /\ Len(args) = 2 /\ "NOTION_API_TOKEN" \notin env /\ exitCode = 1

\* C8: every fragment written for a block at depth d begins with exactly 4*d space
\* characters.
C8_Indent ==
    \A i \in 1..Len(out) :
        IsFragment(out[i]) => Lead(out[i].text) = 4 * DepthOf(doc, out[i].id)

\* C8 as amended: every fragment written for a block at depth d begins with 4*d
\* space characters of indentation, and with no further space, except that the
\* fragment of a paragraph goes on with the leading spaces of the paragraph's text.
C8_IndentThenText ==
    \A i \in 1..Len(out) :
        IsFragment(out[i]) =>
            LET b == Blk(doc, out[i].id) IN
            Lead(out[i].text) =
                4 * DepthOf(doc, out[i].id) +
                (IF b.kind = "paragraph" THEN Lead(getRichTextContent(b.rt)) ELSE 0)

\* a block two levels down, under a table that wrote nothing, has been rendered
C8_Witness ==
    \E i \in 1..Len(out) :
        /\ IsFragment(out[i])
        /\ DepthOf(doc, out[i].id) = 2
        /\ Blk(doc, ParentOf(doc, out[i].id)).kind = "table"

Chars_Intro == <<"I", "n", "t", "r", "o">>
IntroRendering ==
    << <<"#", SP>> \o Chars_Intro \o <<NL, NL>>,
       <<"-", SP, "i", "t", NL>>,
       <<SP, SP, SP, SP, "-", SP, "S", "u", "b", NL>> >>
RenderedTexts == [i \in 1..Len(Fragments) |-> Fragments[i].text]

\* C9: for the page with a heading-1 "Intro" and a bulleted item with one nested
\* bulleted child "Sub", the rendering is "# Intro\n\n", "- <item text>\n",
\* "    - Sub\n" and the text extraction yields "Intro\n\n<item text>\n\n".
C9_RoundTrip ==
    (doc = IntroDoc /\ pc = "summarize") =>
        /\ RenderedTexts = IntroRendering
        /\ content = Chars_Intro \o <<NL, NL, "i", "t", NL, NL>>

\* C9 as amended: the rendering is as stated and the text extraction yields
\* "Intro\n\n<item text>\n\nSub\n\n".
C9_RoundTripWithSub ==
    (doc = IntroDoc /\ pc = "summarize") =>
        /\ RenderedTexts = IntroRendering
        /\ content = Chars_Intro \o <<NL, NL, "i", "t", NL, NL, "S", "u", "b", NL, NL>>

C9_Witness == doc = IntroDoc /\ pc = "summarize" /\ Len(Fragments) = 3

IsNotHyphen(c) == c # HY

\* C10: an unhyphenated id of exactly 32 characters becomes the same characters in
\* the same order with hyphens after the 8th, 12th, 16th and 20th; an id with a
\* hyphen, or of another length, is used as it is; and every list-children call
\* for the page carries that id.
C10_PageID ==
    (pc \in {"print", "collect", "summarize"} \/ calls # <<>>) =>
        LET id == args[2] IN
        /\ (Len(id) = 32 /\ \A i \in 1..Len(id) : id[i] # HY) =>
              /\ Len(pageID) = 36
              /\ {i \in 1..Len(pageID) : pageID[i] = HY} = {9, 14, 19, 24}
              /\ SelectSeq(pageID, IsNotHyphen) = id
        /\ (Len(id) # 32 \/ \E i \in 1..Len(id) : id[i] = HY) => pageID = id
        /\ \A k \in 1..Len(calls) :
              calls[k].req.id \notin Nodes(doc) => calls[k].req.id = pageID

\* the page was asked for by its unhyphenated id and the server has answered
C10_Witness ==
    /\ args = <<Prog, RawID>>
    /\ calls # <<>> /\ calls[1].ok
    /\ calls[1].req.id = RootID

=============================================================================
